---- MODULE Spec2Model ----
(***************************************************************************)
(* SimPEG/Directives.py: the directive registry (DirectiveList), the       *)
(* scalar schedulers (BetaSchedule, TargetMisfit) and the IRLS controller  *)
(* (Update_IRLS), as state machines driven by the optimizer's iteration    *)
(* loop.                                                                   *)
(*                                                                         *)
(* Numbers are exact rationals extended with +/-infinity and NaN, the      *)
(* values numpy float division produces on a zero denominator; rounding    *)
(* is not modelled.  Python's None is the empty tuple, a value v that may  *)
(* be None is <<v>>.                                                       *)
(***************************************************************************)
EXTENDS Integers, Sequences, FiniteSets, TLC

VARIABLES
    pc,        \* where the driver of the run stands
    dl,        \* the DirectiveList
    opt,       \* the optimizer: iter, stopNextIteration
    invProb,   \* the inverse problem: beta, phi_d, phi_m_last, model
    survey,    \* the survey: nD
    reg,       \* the regularization and its terms
    irls,      \* the Update_IRLS directive
    tm,        \* the TargetMisfit directive
    bs,        \* the BetaSchedule directive
    out,       \* what the handler in progress has printed
    calls,     \* the hooks the call in progress has invoked, in order, each
               \* with the stop flag it found
    err,       \* the exception that ended the run, or "none"
    inp,       \* the values reg(model) returned to the handler in progress
    event,     \* the ruleType of the call in progress, "inversion" for an
               \* assignment to an inversion property, or "none"
    args,      \* the arguments DirectiveList(...) was constructed with
    lp,        \* the Update_lin_PreCond directive
    bound,     \* the _inversion of every directive object
    warned,    \* the warnings the handler in progress has emitted
    asg        \* the last assignment to an inversion property: its target
               \* and the context assigned

vars == <<pc, dl, opt, invProb, survey, reg, irls, tm, bs, out, calls, err, inp,
          event, args, lp, bound, warned, asg>>

----------------------------------------------------------------------------
(* Bounds of the model *)

\* the optimizer performs at most MaxIter iterations
MaxIter == 4
\* a DirectiveList is built from at most MaxMembers arguments
MaxMembers == 3
\* maxIRLSiter is drawn from 0..MaxCap
MaxCap == 2
\* minGNiter is drawn from 1..MaxGN
MaxGN == 2

----------------------------------------------------------------------------
(* Floating point values: n/d with d >= 0; d = 0 is an infinity or NaN *)

RECURSIVE GCD(_, _)
GCD(a, b) == IF b = 0 THEN a ELSE GCD(b, a % b)

AbsInt(i) == IF i < 0 THEN -i ELSE i

SignInt(i) == IF i < 0 THEN -1 ELSE IF i > 0 THEN 1 ELSE 0

\* the value n/d for d >= 0, in lowest terms
Norm(n, d) ==
    IF d = 0 THEN [n |-> SignInt(n), d |-> 0]
    ELSE LET g == GCD(AbsInt(n), d) IN [n |-> n \div g, d |-> d \div g]

Rat(n, d) == IF d < 0 THEN Norm(-n, -d) ELSE Norm(n, d)

Inf == [n |-> 1, d |-> 0]
NaN == [n |-> 0, d |-> 0]

IsNaN(a) == a.n = 0 /\ a.d = 0
IsFinite(a) == a.d > 0

RSub(a, b) == Norm(a.n * b.d - b.n * a.d, a.d * b.d)
RMul(a, b) == Norm(a.n * b.n, a.d * b.d)
RDiv(a, b) == Rat(a.n * b.d, a.d * b.n)
RAbs(a) == [n |-> AbsInt(a.n), d |-> a.d]

\* a < b; every comparison with NaN is False
RLess(a, b) ==
    IF IsNaN(a) \/ IsNaN(b) THEN FALSE
    ELSE IF a.d = 0 /\ b.d = 0 THEN a.n < b.n
    ELSE a.n * b.d < b.n * a.d

None == <<>>
Some(v) == <<v>>
Val(o) == o[1]

----------------------------------------------------------------------------
(* The state the directives share, as one record *)

World == [opt |-> opt, invProb |-> invProb, survey |-> survey, reg |-> reg,
          irls |-> irls, tm |-> tm, bs |-> bs, out |-> out, calls |-> calls,
          err |-> err, inp |-> inp, lp |-> lp, bound |-> bound, warned |-> warned]

\* an exception leaves the handler; what was written before it stays written
Raise(w, e) == [w EXCEPT !.err = e]

\* print(...)
Echo(w, msg) == [w EXCEPT !.out = Append(@, msg)]

\* the norms of the smooth phase, [2., 2., 2., 2.]
L2Norms == "l2"

\* np.percentile(np.abs(mapping * model), prctile) of model m
AbsPercentile(m) == Rat(m + 1, 1)

\* np.percentile(np.abs(cellDiffxStencil * mapping * model), prctile) of model m
DiffPercentile(m) == Rat(m + 1, 10)

\* evaluating the regularization rebuilds and stashes every term's weighting
\* matrix R
RegEval(w) ==
    [w EXCEPT !.reg.terms =
        [i \in DOMAIN @ |->
            [@[i] EXCEPT !.comps =
                [j \in DOMAIN @ |-> [@[j] EXCEPT !.stashedR = TRUE]]]]]

\* the stashedR and the gamma of every component of every term, as a call
\* of the regularization finds them
Caches(r) == [i \in DOMAIN r.terms |-> r.terms[i].comps]

\* mutant: only the first component of the first term is reset
SetGamma_firstOnly(w, g) ==
    [w EXCEPT !.reg.terms[1].comps[1] = [stashedR |-> FALSE, gamma |-> g]]

\* comp.stashedR = None; comp.gamma = g, for every term at every level
SetGamma(w, g) ==
    [w EXCEPT !.reg.terms =
        [i \in DOMAIN @ |->
            [@[i] EXCEPT !.comps =
                [j \in DOMAIN @ |-> [stashedR |-> FALSE, gamma |-> g]]]]]

----------------------------------------------------------------------------
(* class Update_IRLS *)

f_min_change == Rat(1, 100)
beta_tol == Rat(5, 100)

\* the target property: nD * 0.5 * chifact, computed once and kept
IRLS_target(w) ==
    IF w.irls.target = None
    THEN [w EXCEPT !.irls.target =
              Some(RMul(RMul(Rat(w.survey.nD, 1), Rat(1, 2)), w.irls.chifact))]
    ELSE w

IRLS_initialize(w) ==
    LET a == IF ~w.reg.isBaseCombo
             THEN [w EXCEPT !.irls.ComboObjFun = TRUE]
             ELSE w
    IN IF a.irls.mode = 1
       THEN [a EXCEPT
               !.irls.norms = [i \in DOMAIN a.reg.terms |-> a.reg.terms[i].norms],
               !.reg.terms = [i \in DOMAIN @ |-> [@[i] EXCEPT !.norms = L2Norms]]]
       ELSE a

\* lines 361-384: use the supplied epsilon, or fix it from the model.  In the
\* combo branch the index ii is bound nowhere: reading it raises NameError.
IRLS_thresholds(w) ==
    IF w.irls.ComboObjFun
    THEN IF \E i \in DOMAIN w.reg.terms :
               w.reg.terms[i].eps_p = None \/ w.reg.terms[i].eps_q = None
         THEN Raise(w, "NameError")
         ELSE w
    ELSE IF w.reg.terms[1].eps_p = None
         THEN [w EXCEPT !.reg.terms[1].eps_p = Some(AbsPercentile(w.invProb.model))]
         ELSE IF w.reg.terms[1].eps_q = None
         THEN [w EXCEPT !.reg.terms[1].eps_q = Some(DiffPercentile(w.invProb.model))]
         ELSE w

\* mutant: the switch does not record the iteration it happens at
IRLS_startSparse_keepsStart(w) ==
    Echo(Echo(
        [w EXCEPT
           !.reg.terms = [i \in DOMAIN @ |-> [@[i] EXCEPT !.norms = w.irls.norms[i]]],
           !.reg.norms = IF w.irls.ComboObjFun THEN Some(w.irls.norms) ELSE @,
           !.irls.coolingFactor = Rat(1, 1),
           !.irls.coolingRate = 1,
           !.irls.phi_d_last = Some(w.invProb.phi_d),
           !.reg.model = Some(w.invProb.model),
           !.reg.l2model = Some(w.invProb.model)],
        "L[p qx qy qz]-norm"), "eps_p eps_q")

\* mutant: the switch leaves the cooling schedule as it was
IRLS_startSparse_keepsCooling(w) ==
    Echo(Echo(
        [w EXCEPT
           !.reg.terms = [i \in DOMAIN @ |-> [@[i] EXCEPT !.norms = w.irls.norms[i]]],
           !.reg.norms = IF w.irls.ComboObjFun THEN Some(w.irls.norms) ELSE @,
           !.irls.iterStart = w.opt.iter,
           !.irls.phi_d_last = Some(w.invProb.phi_d),
           !.reg.model = Some(w.invProb.model),
           !.reg.l2model = Some(w.invProb.model)],
        "L[p qx qy qz]-norm"), "eps_p eps_q")

\* lines 387-412: restore the norms, switch the cooling off, record the start
IRLS_startSparse(w) ==
    Echo(Echo(
        [w EXCEPT
           !.reg.terms = [i \in DOMAIN @ |-> [@[i] EXCEPT !.norms = w.irls.norms[i]]],
           !.reg.norms = IF w.irls.ComboObjFun THEN Some(w.irls.norms) ELSE @,
           !.irls.coolingFactor = Rat(1, 1),
           !.irls.coolingRate = 1,
           !.irls.iterStart = w.opt.iter,
           !.irls.phi_d_last = Some(w.invProb.phi_d),
           !.reg.model = Some(w.invProb.model),
           !.reg.l2model = Some(w.invProb.model)],
        "L[p qx qy qz]-norm"), "eps_p eps_q")

\* mutant: the switch also fires with the misfit on the target
IRLS_switchCond_onTarget(w) ==
    ~RLess(Val(w.irls.target), w.invProb.phi_d) /\ w.irls.mode = 1

\* mutant: the switch is not limited to the smooth mode
IRLS_switchCond_anyMode(w) ==
    RLess(w.invProb.phi_d, Val(w.irls.target))

\* the condition of line 350
IRLS_switchCond(w) ==
    RLess(w.invProb.phi_d, Val(w.irls.target)) /\ w.irls.mode = 1

\* lines 350-412; rl2 is the value of reg(model) under the l2 norms
IRLS_switch(w, rl2) ==
    LET t == IRLS_target(w) IN
    IF IRLS_switchCond(t)
    THEN LET a == Echo(t, "Start IRLS steps")
             b == [a EXCEPT !.irls.mode = 2]
             c == IF b.irls.f_old = None
                  THEN [RegEval(b) EXCEPT !.irls.f_old = Some(rl2), !.inp.rl2 = rl2]
                  ELSE b
             d == IRLS_thresholds(c)
         IN IF d.err # "none" THEN d ELSE IRLS_startSparse(d)
    ELSE t

\* lines 415-418: the beta schedule
IRLS_cool(w) ==
    IF w.opt.iter > 0 /\ w.opt.iter % w.irls.coolingRate = 0
    THEN [w EXCEPT !.invProb.beta = RDiv(@, w.irls.coolingFactor)]
    ELSE w

\* mutant: the cadence is counted from iteration 0, not from the switch
IRLS_reweightPoint_fromZero(w) ==
    w.opt.iter % w.irls.minGNiter = 0 /\ w.irls.mode = 2

\* mutant: every iteration of the sparse phase is a reweighting point
IRLS_reweightPoint_everyIter(w) ==
    w.irls.mode = 2

\* the condition of line 421
IRLS_reweightPoint(w) ==
    (w.opt.iter - w.irls.iterStart) % w.irls.minGNiter = 0 /\ w.irls.mode = 2

\* mutant: no first-cycle guard
IRLS_minDecrease_unguarded(w) ==
    RLess(Val(w.irls.f_change), f_min_change)

\* the condition of line 459
IRLS_minDecrease(w) ==
    RLess(Val(w.irls.f_change), f_min_change) /\ w.irls.IRLSiter > 1

\* mutant: the first cycle rescales beta too
IRLS_outOfBand_unguarded(w) ==
    LET val == RDiv(w.invProb.phi_d, Val(w.irls.target))
    IN RLess(beta_tol, RAbs(RSub(Rat(1, 1), val)))

\* the condition of line 481
IRLS_outOfBand(w) ==
    LET val == RDiv(w.invProb.phi_d, Val(w.irls.target))
    IN RLess(beta_tol, RAbs(RSub(Rat(1, 1), val))) /\ w.irls.IRLSiter > 1

\* lines 466-483: rescale gamma, and beta when the misfit left the band
IRLS_rescale(w, phim_new) ==
    LET a == SetGamma(w, RDiv(w.invProb.phi_m_last, phim_new))
        b == IF a.irls.ComboObjFun THEN a ELSE Echo(a, "Update gamma")
    IN IF IRLS_outOfBand(b)
       THEN [b EXCEPT !.invProb.beta =
                 RDiv(RMul(@, Val(b.irls.target)), b.invProb.phi_d)]
       ELSE b

\* lines 438-483: one reweighting cycle; phim_new is the value of reg(model)
IRLS_cycle(w, phim_new) ==
    LET g == SetGamma(w, Rat(1, 1))
        a == [RegEval(g) EXCEPT !.inp.phim_new = phim_new,
                                !.inp.seen = Some(Caches(g.reg))]
        b == [a EXCEPT !.irls.f_change =
                 Some(RDiv(RAbs(RSub(Val(a.irls.f_old), phim_new)), Val(a.irls.f_old)))]
        c == Echo(b, "Regularization decrease")
    IN IF IRLS_minDecrease(c)
       THEN [Echo(c, "Minimum decrease in regularization") EXCEPT
                !.opt.stopNextIteration = TRUE]
       ELSE IRLS_rescale([c EXCEPT !.irls.f_old = Some(phim_new)], phim_new)

\* mutant: the cap is tested with > instead of ==
IRLS_reweight_lateCap(w, phim_new) ==
    IF IRLS_reweightPoint(w)
    THEN IF w.irls.IRLSiter > w.irls.maxIRLSiter
         THEN [Echo(w, "Reach maximum number of IRLS cycles") EXCEPT
                  !.opt.stopNextIteration = TRUE]
         ELSE IRLS_cycle([w EXCEPT !.reg.model = Some(w.invProb.model),
                                   !.irls.IRLSiter = @ + 1], phim_new)
    ELSE w

\* lines 420-483
IRLS_reweight(w, phim_new) ==
    IF IRLS_reweightPoint(w)
    THEN IF w.irls.IRLSiter = w.irls.maxIRLSiter
         THEN [Echo(w, "Reach maximum number of IRLS cycles") EXCEPT
                  !.opt.stopNextIteration = TRUE]
         ELSE IRLS_cycle([w EXCEPT !.reg.model = Some(w.invProb.model),
                                   !.irls.IRLSiter = @ + 1], phim_new)
    ELSE w

\* Update_IRLS.endIter
IRLS_endIter(w, rl2, phim_new) ==
    LET a == IRLS_switch(w, rl2)
    IN IF a.err # "none" THEN a ELSE IRLS_reweight(IRLS_cool(a), phim_new)

----------------------------------------------------------------------------
(* class BetaSchedule *)

\* mutant: the first iteration is not exempt
BetaSchedule_due_fromZero(w) ==
    w.opt.iter % w.bs.coolingRate = 0

\* the condition of line 179
BetaSchedule_due(w) ==
    w.opt.iter > 0 /\ w.opt.iter % w.bs.coolingRate = 0

BetaSchedule_endIter(w) ==
    IF BetaSchedule_due(w)
    THEN [w EXCEPT !.invProb.beta = RDiv(@, w.bs.coolingFactor)]
    ELSE w

----------------------------------------------------------------------------
(* class TargetMisfit *)

\* the target property: chifact * phi_d_star, phi_d_star = 0.5 * nD unless
\* given; computed once and kept
TargetMisfit_target(w) ==
    IF w.tm.target = None
    THEN LET a == IF w.tm.phi_d_star = None
                  THEN [w EXCEPT !.tm.phi_d_star =
                            Some(RMul(Rat(1, 2), Rat(w.survey.nD, 1)))]
                  ELSE w
         IN [a EXCEPT !.tm.target = Some(RMul(a.tm.chifact, Val(a.tm.phi_d_star)))]
    ELSE w

\* mutant: a misfit on the target stops the run too
TargetMisfit_endIter_onTarget(w) ==
    LET t == TargetMisfit_target(w)
    IN IF ~RLess(Val(t.tm.target), t.invProb.phi_d)
       THEN [t EXCEPT !.opt.stopNextIteration = TRUE]
       ELSE t

TargetMisfit_endIter(w) ==
    LET t == TargetMisfit_target(w)
    IN IF RLess(t.invProb.phi_d, Val(t.tm.target))
       THEN [t EXCEPT !.opt.stopNextIteration = TRUE]
       ELSE t

----------------------------------------------------------------------------
(* class Update_lin_PreCond *)

\* PC = sdiag((mapping.deriv(None).T * diagA)**-1.), diagA built from G and
\* from beta times the diagonal of W.T*W, term by term for a combo objective:
\* named by the directive, the beta and the branch that built it
PreCond_PC(w) ==
    [by |-> "Update_lin_PreCond", beta |-> w.invProb.beta, combo |-> w.lp.ComboObjFun]

\* lines 507-520, 528-542: build the preconditioner and install it
PreCond_install(w) ==
    IF w.lp.mapping = None THEN Raise(w, "AttributeError")
    ELSE [w EXCEPT !.opt.approxHinv = Some(PreCond_PC(w))]

\* mutant: initialize() installs whatever the slot holds
PreCond_initialize_unconditional(w) ==
    LET a == IF ~w.reg.isBaseCombo THEN [w EXCEPT !.lp.ComboObjFun = TRUE] ELSE w
        b == IF a.lp.mapping = None THEN [a EXCEPT !.lp.mapping = Some("IdentityMap")] ELSE a
    IN PreCond_install(b)

\* Update_lin_PreCond.initialize
PreCond_initialize(w) ==
    LET a == IF ~w.reg.isBaseCombo THEN [w EXCEPT !.lp.ComboObjFun = TRUE] ELSE w
        b == IF a.lp.mapping = None THEN [a EXCEPT !.lp.mapping = Some("IdentityMap")] ELSE a
    IN IF b.opt.approxHinv = None THEN PreCond_install(b) ELSE b

\* Update_lin_PreCond.endIter
PreCond_endIter(w) ==
    IF w.lp.onlyOnStart THEN w
    ELSE IF w.opt.approxHinv # None THEN PreCond_install(w) ELSE w

----------------------------------------------------------------------------
(* class DirectiveList *)

\* the objects a caller may hand to DirectiveList(...), and their classes
ClassOf == [irls   |-> "Update_IRLS",
            beta   |-> "BetaSchedule",
            target |-> "TargetMisfit",
            plain  |-> "InversionDirective",
            other  |-> "object"]

Objects == DOMAIN ClassOf

\* isinstance(d, InversionDirective)
IsDirective(d) ==
    ClassOf[d] \in {"InversionDirective", "BetaSchedule", "TargetMisfit", "Update_IRLS"}

\* the lifecycle hooks of class InversionDirective
Directives == <<"initialize", "endIter", "finish">>

\* getattr(r, ruleType)(): the hook of r's class, inherited as a no-op from
\* InversionDirective where the class does not override it
Hook(r, ruleType, w, in) ==
    CASE ClassOf[r] = "Update_IRLS" /\ ruleType = "initialize" -> IRLS_initialize(w)
      [] ClassOf[r] = "Update_IRLS" /\ ruleType = "endIter" ->
             IRLS_endIter(w, in.rl2, in.phim_new)
      [] ClassOf[r] = "BetaSchedule" /\ ruleType = "endIter" -> BetaSchedule_endIter(w)
      [] ClassOf[r] = "TargetMisfit" /\ ruleType = "endIter" -> TargetMisfit_endIter(w)
      [] ~(\E k \in DOMAIN Directives : Directives[k] = ruleType) ->
             Raise(w, "AttributeError")
      [] OTHER -> w

\* mutant: only the last argument is asserted to be a directive
DirectiveList_init_lastOnly(directives) ==
    IF directives = <<>> \/ IsDirective(directives[Len(directives)])
    THEN [err |-> "none", dList |-> Some(directives)]
    ELSE [err |-> "AssertionError", dList |-> None]

\* DirectiveList.__init__: the list it builds, or the failed assertion
DirectiveList_init(directives) ==
    IF \A k \in DOMAIN directives : IsDirective(directives[k])
    THEN [err |-> "none", dList |-> Some(directives)]
    ELSE [err |-> "AssertionError", dList |-> None]

\* r's hook is invoked: the call is recorded, with the stop flag it finds,
\* then its body runs
Invoke(r, ruleType, w, in) ==
    Hook(r, ruleType,
         [w EXCEPT !.calls = Append(@, [who |-> r, hook |-> ruleType,
                                        stop |-> w.opt.stopNextIteration,
                                        inversion |-> w.bound[r]])], in)

\* mutant: the members are visited last to first
RECURSIVE DirectiveList_loop_reversed(_, _, _, _, _)
DirectiveList_loop_reversed(dList, k, ruleType, w, in) ==
    IF k > Len(dList) \/ w.err # "none" THEN w
    ELSE DirectiveList_loop_reversed(dList, k + 1, ruleType,
             Invoke(dList[Len(dList) + 1 - k], ruleType, w, in), in)

\* mutant: the loop ends once the stop flag is set
RECURSIVE DirectiveList_loop_untilStop(_, _, _, _, _)
DirectiveList_loop_untilStop(dList, k, ruleType, w, in) ==
    IF k > Len(dList) \/ w.err # "none" \/ w.opt.stopNextIteration THEN w
    ELSE DirectiveList_loop_untilStop(dList, k + 1, ruleType,
             Invoke(dList[k], ruleType, w, in), in)

\* the loop of lines 118-119 from member k on; a hook that raises ends it
RECURSIVE DirectiveList_loop(_, _, _, _, _)
DirectiveList_loop(dList, k, ruleType, w, in) ==
    IF k > Len(dList) \/ w.err # "none" THEN w
    ELSE DirectiveList_loop(dList, k + 1, ruleType,
             Invoke(dList[k], ruleType, w, in), in)

\* mutant: the event name is not checked
DirectiveList_call_unchecked(d, ruleType, w, in) ==
    IF d.dList = None THEN w
    ELSE DirectiveList_loop(Val(d.dList), 1, ruleType, w, in)

\* DirectiveList.call
DirectiveList_call(d, ruleType, w, in) ==
    IF d.dList = None THEN w
    ELSE IF ~(\E k \in DOMAIN Directives : Directives[k] = ruleType)
         THEN Raise(w, "AssertionError")
         ELSE DirectiveList_loop(Val(d.dList), 1, ruleType, w, in)

----------------------------------------------------------------------------
(* The inversion properties *)

\* mutant: the setter warns on the first binding too
Directive_setInversion_alwaysWarns(w, d, i) ==
    [w EXCEPT !.warned = Append(@, ClassOf[d]), !.bound[d] = Some(i)]

\* InversionDirective.inversion = i: warn when an inversion is held, then
\* take the new one
Directive_setInversion(w, d, i) ==
    LET a == IF w.bound[d] # None
             THEN [w EXCEPT !.warned = Append(@, ClassOf[d])]
             ELSE w
    IN [a EXCEPT !.bound[d] = Some(i)]

\* the loop of lines 103-104 from member k on
RECURSIVE DirectiveList_fanOut(_, _, _, _)
DirectiveList_fanOut(dList, k, w, i) ==
    IF k > Len(dList) THEN w
    ELSE DirectiveList_fanOut(dList, k + 1, Directive_setInversion(w, dList[k], i), i)

\* mutant: the list keeps the inversion and hands it to no member
DirectiveList_setInversion_lazy(d, w, i) ==
    IF d.inversion = Some(i) THEN [w |-> w, inversion |-> d.inversion]
    ELSE [w |-> IF d.inversion # None
                THEN [w EXCEPT !.warned = Append(@, "DirectiveList")]
                ELSE w,
          inversion |-> Some(i)]

\* DirectiveList.inversion = i: nothing when i is the inversion held; else a
\* warning when one is held, then every member's setter, then the list's own
\* field.  The result: the state left and the list's _inversion.
DirectiveList_setInversion(d, w, i) ==
    IF d.inversion = Some(i) THEN [w |-> w, inversion |-> d.inversion]
    ELSE LET a == IF d.inversion # None
                  THEN [w EXCEPT !.warned = Append(@, "DirectiveList")]
                  ELSE w
         IN [w |-> DirectiveList_fanOut(Val(d.dList), 1, a, i), inversion |-> Some(i)]

----------------------------------------------------------------------------
(* The values the collaborators supply *)

\* invProb.phi_d: zero, below the target, on it, above it (target 10)
PhiVals == {Rat(0, 1), Rat(8, 1), Rat(10, 1), Rat(12, 1)}
\* reg(model)
RegVals == {Rat(0, 1), Rat(100, 1), Rat(101, 1)}
\* invProb.phi_m_last
PhiMVals == {Rat(0, 1), Rat(50, 1)}
\* a threshold the caller supplied, or none
EpsVals == {None, Some(Rat(1, 100))}

\* a BaseComboRegularization of two components
Term(eps_p, eps_q) ==
    [eps_p |-> eps_p, eps_q |-> eps_q, norms |-> "lp",
     comps |-> [j \in 1..2 |-> [stashedR |-> FALSE, gamma |-> Rat(1, 1)]]]

\* one regularization, or the sum of two
Regs ==
    { [isBaseCombo |-> TRUE, norms |-> None, model |-> None, l2model |-> None,
       terms |-> <<Term(p, q)>>] : p \in EpsVals, q \in EpsVals }
    \cup
    { [isBaseCombo |-> FALSE, norms |-> None, model |-> None, l2model |-> None,
       terms |-> <<Term(p, q), Term(p2, q2)>>] :
           p \in EpsVals, q \in EpsVals, p2 \in EpsVals, q2 \in EpsVals }

\* Update_IRLS(minGNiter=g, maxIRLSiter=c, f_old=f), else the class defaults
IRLSWith(g, c, f) ==
    [mode |-> 1, IRLSiter |-> 0, minGNiter |-> g, maxIRLSiter |-> c,
     iterStart |-> 0, f_old |-> f, f_change |-> None, phi_d_last |-> None,
     coolingFactor |-> Rat(2, 1), coolingRate |-> 1, ComboObjFun |-> FALSE,
     chifact |-> Rat(1, 1), target |-> None, norms |-> <<>>]

\* Update_IRLS(minGNiter=g, maxIRLSiter=c)
NewIRLS(g, c) == IRLSWith(g, c, None)

\* TargetMisfit() with the class defaults
NewTargetMisfit == [chifact |-> Rat(1, 1), phi_d_star |-> None, target |-> None]

\* BetaSchedule(coolingFactor=f, coolingRate=r)
NewBetaSchedule(f, r) == [coolingFactor |-> f, coolingRate |-> r]

NoInput == [rl2 |-> NaN, phim_new |-> NaN, seen |-> None]

\* Update_lin_PreCond(onlyOnStart=o), else the class defaults
NewPreCond(o) == [onlyOnStart |-> o, mapping |-> None, ComboObjFun |-> FALSE]

\* no directive has been given an inversion, and none was assigned
Unbound ==
    /\ lp = NewPreCond(FALSE)
    /\ bound = [d \in Objects |-> None]
    /\ warned = <<>>
    /\ asg = None

\* the inversion before its first iteration
InitContext ==
    /\ opt = [iter |-> 0, stopNextIteration |-> FALSE, approxHinv |-> None]
    /\ invProb \in [beta : {Rat(64, 1)}, phi_d : PhiVals, phi_m_last : PhiMVals,
                    model : {0}]
    /\ survey = [nD |-> 20]
    /\ out = <<>>
    /\ calls = <<>>
    /\ err = "none"
    /\ inp = NoInput
    /\ event = "none"
    /\ args = <<>>
    /\ Unbound

----------------------------------------------------------------------------
(* Actions *)

\* a handler returns: the shared state is what it left
Commit(w) ==
    /\ opt' = w.opt
    /\ invProb' = w.invProb
    /\ survey' = w.survey
    /\ reg' = w.reg
    /\ irls' = w.irls
    /\ tm' = w.tm
    /\ bs' = w.bs
    /\ out' = w.out
    /\ calls' = w.calls
    /\ err' = w.err
    /\ inp' = w.inp
    /\ lp' = w.lp
    /\ bound' = w.bound
    /\ warned' = w.warned

\* the handler starts with nothing printed, no hook called and no value read
Fresh == [World EXCEPT !.out = <<>>, !.calls = <<>>, !.inp = NoInput, !.warned = <<>>]

\* one iteration of the optimizer: a new model (named by the iteration that
\* found it), its misfit from phis and the regularization value before it
\* from phims
Iterate(phis, phims) ==
    /\ pc = "step"
    /\ opt.iter < MaxIter
    /\ pc' = "hooks"
    /\ opt' = [opt EXCEPT !.iter = @ + 1]
    /\ \E phi_d \in phis, phi_m \in phims :
           invProb' = [invProb EXCEPT !.phi_d = phi_d, !.phi_m_last = phi_m,
                                      !.model = opt.iter + 1]
    /\ out' = <<>>
    /\ calls' = <<>>
    /\ inp' = NoInput
    /\ event' = "none"
    /\ warned' = <<>>
    /\ UNCHANGED <<dl, survey, reg, irls, tm, bs, err, args, lp, bound, asg>>

OptStep == Iterate(PhiVals, PhiMVals)

\* the optimizer calls Update_IRLS.initialize()
IRLS_Initialize ==
    /\ pc = "init"
    /\ pc' = "hooks"
    /\ Commit(IRLS_initialize(Fresh))
    /\ UNCHANGED <<dl, event, args, asg>>

\* the optimizer calls Update_IRLS.endIter()
IRLS_EndIter ==
    /\ pc = "hooks"
    /\ \E rl2 \in RegVals, phim_new \in RegVals :
          LET w == IRLS_endIter(Fresh, rl2, phim_new)
          IN /\ Commit(w)
             /\ pc' = IF w.err = "none" THEN "step" ELSE "aborted"
    /\ UNCHANGED <<dl, event, args, asg>>

InitIRLS ==
    /\ pc = "init"
    /\ dl = [dList |-> None, inversion |-> None]
    /\ InitContext
    /\ reg \in Regs
    /\ irls \in {IRLSWith(g, c, f) : g \in 1..MaxGN, c \in 0..MaxCap,
                                     f \in {None, Some(Rat(101, 1))}}
    /\ tm = NewTargetMisfit
    /\ bs = NewBetaSchedule(Rat(8, 1), 3)

NextIRLS == IRLS_Initialize \/ IRLS_EndIter \/ OptStep

SpecIRLS == InitIRLS /\ [][NextIRLS]_vars

----------------------------------------------------------------------------
(* Update_IRLS with its own cooling schedule and misfits around the band *)

\* invProb.phi_d: zero, below the band of the target, in it on either side,
\* above it
BandVals == {Rat(0, 1), Rat(8, 1), Rat(49, 5), Rat(51, 5), Rat(12, 1)}

\* an iteration whose misfit is in or out of the band
BandStep == Iterate(BandVals, PhiMVals)

InitCycle ==
    /\ pc = "init"
    /\ dl = [dList |-> None, inversion |-> None]
    /\ InitContext
    /\ invProb.phi_d \in {Rat(8, 1), Rat(12, 1)}
    /\ reg \in {r \in Regs : \A i \in DOMAIN r.terms :
                                r.terms[i].eps_p # None /\ r.terms[i].eps_q # None}
    /\ \E g \in 1..MaxGN, c \in 0..MaxCap, r \in 1..2 :
          irls = [NewIRLS(g, c) EXCEPT !.coolingRate = r]
    /\ tm = NewTargetMisfit
    /\ bs = NewBetaSchedule(Rat(8, 1), 3)

NextCycle == IRLS_Initialize \/ IRLS_EndIter \/ BandStep

SpecCycle == InitCycle /\ [][NextCycle]_vars

----------------------------------------------------------------------------
(* BetaSchedule alone, called at any iteration *)

\* the optimizer calls BetaSchedule.endIter()
BetaSchedule_EndIter ==
    /\ pc = "hooks"
    /\ pc' = "step"
    /\ Commit(BetaSchedule_endIter(Fresh))
    /\ UNCHANGED <<dl, event, args, asg>>

\* coolingRate is drawn from 1..MaxRate
MaxRate == 3

InitBeta ==
    /\ pc = "hooks"
    /\ dl = [dList |-> None, inversion |-> None]
    /\ opt = [iter |-> 0, stopNextIteration |-> FALSE, approxHinv |-> None]
    /\ invProb \in [beta : {Rat(64, 1), Rat(800, 1)}, phi_d : PhiVals,
                    phi_m_last : PhiMVals, model : {0}]
    /\ survey = [nD |-> 20]
    /\ out = <<>> /\ calls = <<>> /\ err = "none" /\ inp = NoInput
    /\ Unbound
    /\ event = "none" /\ args = <<>>
    /\ reg \in {r \in Regs : r.isBaseCombo /\ r.terms[1].eps_p = None /\ r.terms[1].eps_q = None}
    /\ irls = NewIRLS(1, 1)
    /\ tm = NewTargetMisfit
    /\ bs \in {NewBetaSchedule(f, r) :
                  f \in {Rat(1, 1), Rat(2, 1), Rat(8, 1)}, r \in 1..MaxRate}

NextBeta == BetaSchedule_EndIter \/ OptStep

SpecBeta == InitBeta /\ [][NextBeta]_vars

----------------------------------------------------------------------------
(* TargetMisfit alone *)

\* the optimizer calls TargetMisfit.endIter()
TargetMisfit_EndIter ==
    /\ pc = "hooks"
    /\ pc' = "step"
    /\ Commit(TargetMisfit_endIter(Fresh))
    /\ UNCHANGED <<dl, event, args, asg>>

InitTarget ==
    /\ pc = "hooks"
    /\ dl = [dList |-> None, inversion |-> None]
    /\ opt \in [iter : {0}, stopNextIteration : BOOLEAN, approxHinv : {None}]
    /\ invProb \in [beta : {Rat(64, 1)},
                    phi_d : PhiVals \cup {Rat(99, 10), Rat(101, 10)},
                    phi_m_last : PhiMVals, model : {0}]
    /\ survey \in [nD : {20, 21}]
    /\ out = <<>> /\ calls = <<>> /\ err = "none" /\ inp = NoInput
    /\ Unbound
    /\ event = "none" /\ args = <<>>
    /\ reg \in {r \in Regs : r.isBaseCombo /\ r.terms[1].eps_p = None /\ r.terms[1].eps_q = None}
    /\ irls = NewIRLS(1, 1)
    /\ tm \in [chifact : {Rat(1, 1), Rat(1, 2)}, phi_d_star : {None, Some(Rat(8, 1))},
               target : {None}]
    /\ bs = NewBetaSchedule(Rat(8, 1), 3)

NextTarget == TargetMisfit_EndIter \/ OptStep

SpecTarget == InitTarget /\ [][NextTarget]_vars

----------------------------------------------------------------------------
(* The run of an inversion through its DirectiveList *)

\* argument tuples of at most n objects
Tuples(n) == UNION {[1..k -> Objects] : k \in 0..n}

\* event names a caller may pass that are none of the three
OtherEvents == {"start", "enditer"}

\* DirectiveList(*directives)
Construct ==
    /\ pc = "new"
    /\ \E directives \in Tuples(MaxMembers) :
          LET r == DirectiveList_init(directives)
          IN /\ args' = directives
             /\ err' = r.err
             /\ dl' = [dl EXCEPT !.dList = r.dList]
             /\ pc' = IF r.err = "none" THEN "init" ELSE "failed"
    /\ UNCHANGED <<opt, invProb, survey, reg, irls, tm, bs, out, calls, inp, event,
                   lp, bound, warned, asg>>

\* directiveList.call(ruleType), the reads of reg(model) answered by in
Call(ruleType, in, next) ==
    LET w == DirectiveList_call(dl, ruleType, Fresh, in)
    IN /\ Commit(w)
       /\ event' = ruleType
       /\ pc' = IF w.err = "none" THEN next ELSE "aborted"
       /\ UNCHANGED <<dl, args, asg>>

\* the optimizer starts up
CallInitialize ==
    /\ pc = "init"
    /\ Call("initialize", NoInput, "hooks")

\* the optimizer ends an iteration
CallEndIter ==
    /\ pc = "hooks"
    /\ \E rl2 \in {Rat(100, 1)}, phim_new \in {Rat(100, 1), Rat(101, 1)} :
          Call("endIter", [rl2 |-> rl2, phim_new |-> phim_new], "step")

\* an iteration whose misfit is below or above the target
RunStep == Iterate({Rat(8, 1), Rat(12, 1)}, {Rat(50, 1)})

\* the optimizer has finished
CallFinish ==
    /\ pc = "step"
    /\ Call("finish", NoInput, "finished")

\* a caller passes another event name
CallOther ==
    /\ pc \in {"init", "hooks", "step"}
    /\ \E ruleType \in OtherEvents : Call(ruleType, NoInput, pc)

Init ==
    /\ pc = "new"
    /\ dl = [dList |-> None, inversion |-> None]
    /\ InitContext
    /\ invProb.phi_d \in {Rat(8, 1), Rat(12, 1)}
    /\ invProb.phi_m_last = Rat(50, 1)
    /\ reg \in {r \in Regs : \A i \in DOMAIN r.terms :
                                r.terms[i].eps_p = None /\ r.terms[i].eps_q = None}
    /\ irls = NewIRLS(1, 1)
    /\ tm = NewTargetMisfit
    /\ bs = NewBetaSchedule(Rat(8, 1), 3)

Next == Construct \/ CallInitialize \/ CallEndIter \/ CallFinish \/ CallOther \/ RunStep

Spec == Init /\ [][Next]_vars

----------------------------------------------------------------------------
(* Update_lin_PreCond after a BetaSchedule *)

\* a preconditioner the caller has put into opt.approxHinv
CallerPC == [by |-> "caller", beta |-> NaN, combo |-> FALSE]

\* the optimizer calls Update_lin_PreCond.initialize()
PreCond_Initialize ==
    /\ pc = "init"
    /\ pc' = "hooks"
    /\ Commit(PreCond_initialize(Fresh))
    /\ UNCHANGED <<dl, event, args, asg>>

\* the optimizer calls BetaSchedule.endIter(), the directive before
PreCond_Cool ==
    /\ pc = "hooks"
    /\ pc' = "cooled"
    /\ Commit(BetaSchedule_endIter(Fresh))
    /\ UNCHANGED <<dl, event, args, asg>>

\* the optimizer calls Update_lin_PreCond.endIter()
PreCond_EndIter ==
    /\ pc = "cooled"
    /\ LET w == PreCond_endIter(Fresh)
       IN /\ Commit(w)
          /\ pc' = IF w.err = "none" THEN "step" ELSE "aborted"
    /\ UNCHANGED <<dl, event, args, asg>>

InitPreCond ==
    /\ pc = "init"
    /\ dl = [dList |-> None, inversion |-> None]
    /\ opt \in [iter : {0}, stopNextIteration : {FALSE},
                 approxHinv : {None, Some(CallerPC)}]
    /\ invProb \in [beta : {Rat(64, 1), Rat(800, 1)}, phi_d : PhiVals,
                    phi_m_last : PhiMVals, model : {0}]
    /\ survey = [nD |-> 20]
    /\ out = <<>> /\ calls = <<>> /\ err = "none" /\ inp = NoInput
    /\ event = "none" /\ args = <<>>
    /\ reg \in {r \in Regs : \A i \in DOMAIN r.terms :
                                r.terms[i].eps_p = None /\ r.terms[i].eps_q = None}
    /\ irls = NewIRLS(1, 1)
    /\ tm = NewTargetMisfit
    /\ bs \in {NewBetaSchedule(f, r) : f \in {Rat(2, 1), Rat(8, 1)}, r \in 1..MaxRate}
    /\ lp \in {NewPreCond(o) : o \in BOOLEAN}
    /\ bound = [d \in Objects |-> None]
    /\ warned = <<>>
    /\ asg = None

NextPreCond == PreCond_Initialize \/ PreCond_Cool \/ PreCond_EndIter \/ OptStep

SpecPreCond == InitPreCond /\ [][NextPreCond]_vars

----------------------------------------------------------------------------
(* A DirectiveList and its members handed from inversion to inversion *)

\* the inversions of two runs
Contexts == {"inv1", "inv2"}

\* the directive objects the lists of this part are built from
BindObjects == {"plain", "beta", "target"}

\* directiveList.inversion = c
SetListInversion ==
    /\ pc = "bind"
    /\ \E c \in Contexts :
          LET r == DirectiveList_setInversion(dl, Fresh, c)
          IN /\ Commit(r.w)
             /\ dl' = [dl EXCEPT !.inversion = r.inversion]
             /\ asg' = Some([on |-> "DirectiveList", value |-> c])
    /\ event' = "inversion"
    /\ UNCHANGED <<pc, args>>

\* directive.inversion = c, for a member of the list
SetMemberInversion ==
    /\ pc = "bind"
    /\ \E k \in DOMAIN Val(dl.dList), c \in Contexts :
          /\ Commit(Directive_setInversion(Fresh, Val(dl.dList)[k], c))
          /\ asg' = Some([on |-> Val(dl.dList)[k], value |-> c])
    /\ event' = "inversion"
    /\ UNCHANGED <<pc, dl, args>>

\* directiveList.call('finish') at the end of a run
BindFinish ==
    /\ pc = "bind"
    /\ Call("finish", NoInput, "bind")

InitBind ==
    /\ pc = "bind"
    /\ InitContext
    /\ invProb.phi_d = Rat(12, 1)
    /\ invProb.phi_m_last = Rat(50, 1)
    /\ \E directives \in UNION {[1..k -> BindObjects] : k \in 0..MaxMembers} :
          dl = [dList |-> DirectiveList_init(directives).dList, inversion |-> None]
    /\ reg \in {r \in Regs : r.isBaseCombo /\ r.terms[1].eps_p = None /\ r.terms[1].eps_q = None}
    /\ irls = NewIRLS(1, 1)
    /\ tm = NewTargetMisfit
    /\ bs = NewBetaSchedule(Rat(8, 1), 3)

NextBind == SetListInversion \/ SetMemberInversion \/ BindFinish

SpecBind == InitBind /\ [][NextBind]_vars

----------------------------------------------------------------------------
(* Vocabulary of the properties of Update_IRLS *)

Smooth == 1
Sparse == 2

\* a step that is one whole call of a handler
HandlerStep == pc = "hooks" /\ pc' # "hooks"

\* x < chifact * 0.5 * nD with chifact = 1, on integers
BelowTarget(x) == x.d > 0 /\ 2 * x.n < survey.nD * x.d

Printed(msg) == \E k \in DOMAIN out : out[k] = msg

\* the thresholds of every term
Thresholds(r) == [i \in DOMAIN r.terms |-> <<r.terms[i].eps_p, r.terms[i].eps_q>>]

\* the gamma of every component of every term
Gammas(r) ==
    [i \in DOMAIN r.terms |-> [j \in DOMAIN r.terms[i].comps |-> r.terms[i].comps[j].gamma]]

\* C1: the mode never returns from Sparse to Smooth, and it leaves Smooth in
\* exactly the steps that are an endIter() entered with phi_d < target: so the
\* mode is Sparse iff some endIter() so far was entered with phi_d < target.
C1_ModeSwitch ==
    [][ /\ irls.mode = Sparse => irls'.mode = Sparse
        /\ irls.mode = Smooth =>
              (irls'.mode = Sparse <=> (HandlerStep /\ BelowTarget(invProb.phi_d)))
        /\ irls'.mode \in {Smooth, Sparse} ]_vars

\* Sparse was entered earlier and an endIter() entered with phi_d >= target
\* has returned since
C1_Witness ==
    /\ pc = "step"
    /\ irls.mode = Sparse
    /\ opt.iter > irls.iterStart
    /\ ~BelowTarget(invProb.phi_d)

\* C2: once the switch has been made, no step writes the eps_p or eps_q of
\* any regularization term.
C2_ThresholdsFrozen ==
    [][ irls.mode = Sparse => Thresholds(reg') = Thresholds(reg) ]_vars

\* a second reweighting cycle has run on a model other than the one of the
\* switch, and eps_p is still the percentile of the model of the switch
C2_Witness ==
    /\ pc = "step"
    /\ irls.mode = Sparse
    /\ irls.IRLSiter >= 2
    /\ invProb.model # Val(reg.l2model)
    /\ BelowTarget(invProb.phi_d)
    /\ reg.terms[1].eps_p = Some(AbsPercentile(Val(reg.l2model)))

\* C3: an endIter() entered in Sparse mode at a reweighting point with
\* IRLSiter == maxIRLSiter sets the stop flag and leaves IRLSiter, f_old,
\* every gamma and beta as they were.  (The call that makes the switch with
\* maxIRLSiter = 0 meets the cap too: it leaves the same fields but f_old,
\* which its switch step has initialised.)
C3_HardCap ==
    [][ ( /\ HandlerStep
          /\ err' = "none"
          /\ irls'.mode = Sparse
          /\ (opt.iter - irls'.iterStart) % irls.minGNiter = 0
          /\ irls.IRLSiter = irls.maxIRLSiter )
        => ( /\ opt'.stopNextIteration
             /\ irls'.IRLSiter = irls.IRLSiter
             /\ irls.mode = Sparse => irls'.f_old = irls.f_old
             /\ Gammas(reg') = Gammas(reg)
             /\ invProb'.beta = invProb.beta ) ]_vars

\* the cap was hit after maxIRLSiter >= 2 cycles, by a call entered in Sparse
C3_Witness ==
    /\ pc = "step"
    /\ Printed("Reach maximum number of IRLS cycles")
    /\ irls.maxIRLSiter >= 2
    /\ irls.IRLSiter = irls.maxIRLSiter
    /\ opt.iter > irls.iterStart
    /\ opt.stopNextIteration

\* |f_old - phim_new| / f_old < 1e-2, on integers; a zero f_old gives inf or
\* NaN, which is below nothing
SmallChange(f, p) ==
    /\ f.d > 0 /\ p.d > 0 /\ f.n > 0
    /\ 100 * AbsInt(f.n * p.d - p.n * f.d) < p.d * f.n

\* the f_old a cycle of this step compares with: the one held, or the one the
\* switch of the same call has just taken from reg(model)
FOldAtCycle == IF irls.f_old = None THEN inp'.rl2 ELSE Val(irls.f_old)

\* a call that runs a reweighting cycle (one the cap does not stop)
CycleStep ==
    /\ HandlerStep
    /\ err' = "none"
    /\ irls'.mode = Sparse
    /\ (opt.iter - irls'.iterStart) % irls.minGNiter = 0
    /\ irls.IRLSiter # irls.maxIRLSiter

\* C4: in a reweighting cycle the decrease test stops the run iff the
\* relative change is below f_min_change and the incremented IRLSiter is
\* above 1; when it does, f_old, beta are kept and gamma stays at the 1 of
\* the cycle's start; when it does not, f_old becomes phim_new and the stop
\* flag is as before.
C4_DecreaseStop ==
    [][ CycleStep =>
          LET fired == \E k \in DOMAIN out' : out'[k] = "Minimum decrease in regularization"
          IN /\ irls'.IRLSiter = irls.IRLSiter + 1
             /\ fired <=> ( /\ SmallChange(FOldAtCycle, inp'.phim_new)
                            /\ irls'.IRLSiter > 1 )
             /\ fired => /\ opt'.stopNextIteration
                         /\ irls'.f_old = Some(FOldAtCycle)
                         /\ invProb'.beta = invProb.beta
                         /\ \A i \in DOMAIN reg'.terms : \A j \in DOMAIN reg'.terms[i].comps :
                               reg'.terms[i].comps[j].gamma = Rat(1, 1)
             /\ ~fired => /\ irls'.f_old = Some(inp'.phim_new)
                          /\ opt'.stopNextIteration = opt.stopNextIteration ]_vars

\* the decrease test has fired in a second or later cycle
C4_Witness ==
    /\ pc = "step"
    /\ Printed("Minimum decrease in regularization")
    /\ irls.IRLSiter >= 2
    /\ opt.stopNextIteration

----------------------------------------------------------------------------
(* Properties of BetaSchedule and TargetMisfit *)

\* q = b / f, on integers
IsQuotient(q, b, f) == q.d > 0 /\ q.n * b.d * f.n = b.n * f.d * q.d

\* C5: BetaSchedule.endIter() divides beta by coolingFactor when iter > 0 and
\* iter mod coolingRate == 0, and leaves beta alone in every other case; with
\* a coolingFactor other than 1 the new beta is the quotient in no other case.
C5_BetaSchedule ==
    [][ HandlerStep =>
          LET due == opt.iter > 0 /\ opt.iter % bs.coolingRate = 0
          IN /\ due => IsQuotient(invProb'.beta, invProb.beta, bs.coolingFactor)
             /\ ~due => invProb'.beta = invProb.beta
             /\ bs.coolingFactor # Rat(1, 1) =>
                   (IsQuotient(invProb'.beta, invProb.beta, bs.coolingFactor) <=> due)
             /\ opt' = opt /\ bs' = bs ]_vars

\* iter = 3, coolingRate = 3, coolingFactor = 8 has taken beta from 800 to 100
C5_Witness ==
    /\ pc = "step"
    /\ opt.iter = 3
    /\ bs = NewBetaSchedule(Rat(8, 1), 3)
    /\ invProb.beta = Rat(100, 1)

\* chifact * phi_d_star, phi_d_star = 0.5 * nD unless given; as the pair
\* <<numerator, denominator>>
TargetOf(t, sv) ==
    IF t.phi_d_star = None
    THEN <<t.chifact.n * sv.nD, t.chifact.d * 2>>
    ELSE <<t.chifact.n * Val(t.phi_d_star).n, t.chifact.d * Val(t.phi_d_star).d>>

\* C6: TargetMisfit.endIter() sets the stop flag when phi_d is strictly below
\* chifact * phi_d_star (phi_d_star = 0.5 * nD by default), leaves the flag
\* as it was otherwise, and writes nothing else of the optimizer, the
\* inverse problem or the regularization.
C6_TargetMisfit ==
    [][ HandlerStep =>
          LET t == TargetOf(tm, survey)
              below == invProb.phi_d.n * t[2] < t[1] * invProb.phi_d.d
          IN /\ below => opt'.stopNextIteration
             /\ ~below => opt'.stopNextIteration = opt.stopNextIteration
             /\ opt'.iter = opt.iter
             /\ invProb' = invProb
             /\ reg' = reg ]_vars

\* with the defaults and nD = 20, a misfit of 9.9 has set the flag
C6_Witness ==
    /\ pc = "step"
    /\ opt.iter = 0
    /\ survey.nD = 20
    /\ tm.chifact = Rat(1, 1)
    /\ tm.target = Some(Rat(10, 1))
    /\ invProb.phi_d = Rat(99, 10)
    /\ opt.stopNextIteration

----------------------------------------------------------------------------
(* Properties of DirectiveList *)

IsLifecycleEvent(e) == e \in {"initialize", "endIter", "finish"}

\* the first n members' hooks for event e, in registration order
InOrder(n, e) == [k \in 1..n |-> [who |-> Val(dl.dList)[k], hook |-> e]]

\* the hooks invoked, in the order of their invocation
Invoked == [k \in DOMAIN calls |-> [who |-> calls[k].who, hook |-> calls[k].hook]]

\* C7: a call with one of the three event names invokes that hook of every
\* member once, in registration order; when a hook raises, the members
\* before it and it were invoked, in that order, and none after it.
C7_DispatchOrder ==
    IsLifecycleEvent(event) =>
        /\ err = "none" => Invoked = InOrder(Len(Val(dl.dList)), event)
        /\ err # "none" => \E n \in 1..Len(Val(dl.dList)) : Invoked = InOrder(n, event)

\* endIter of a list of three different directives has completed
C7_Witness ==
    /\ pc = "step"
    /\ event = "endIter"
    /\ Val(dl.dList) = <<"target", "irls", "beta">>
    /\ Invoked = InOrder(3, "endIter")

\* the BetaSchedule entries of the list
Coolers == {k \in DOMAIN Val(dl.dList) : Val(dl.dList)[k] = "beta"}

\* C8: in a call of endIter during which the stop flag is set, the endIter
\* of every member is still invoked, and a BetaSchedule registered in the
\* list still cools beta in that call.
C8_StopIsAdvisory ==
    [][ ( /\ event' = "endIter"
          /\ pc = "hooks"
          /\ err' = "none"
          /\ ~opt.stopNextIteration
          /\ opt'.stopNextIteration )
        => /\ Len(calls') = Len(Val(dl.dList))
           /\ ( /\ Cardinality(Coolers) = 1
                /\ \A k \in DOMAIN Val(dl.dList) : Val(dl.dList)[k] # "irls"
                /\ opt.iter > 0 /\ opt.iter % bs.coolingRate = 0 )
              => IsQuotient(invProb'.beta, invProb.beta, bs.coolingFactor) ]_vars

\* TargetMisfit, first in the list, has set the flag at iteration 3 and the
\* BetaSchedule after it has cooled beta from 64 to 8 in the same call
C8_Witness ==
    /\ pc = "step"
    /\ event = "endIter"
    /\ Val(dl.dList) = <<"target", "beta">>
    /\ opt.iter = 3
    /\ opt.stopNextIteration
    /\ invProb.beta = Rat(8, 1)
    /\ Len(calls) = 2
    /\ ~calls[1].stop
    /\ calls[2].stop

\* C9: DirectiveList(...) with an argument that is no InversionDirective
\* fails with an error and builds no list; every member of a list that was
\* built is of a class with the three hooks.
C9_RejectsNonDirective ==
    pc # "new" =>
        /\ (\E k \in DOMAIN args : ClassOf[args[k]] = "object")
              => (pc = "failed" /\ err = "AssertionError" /\ dl.dList = None)
        /\ dl.dList # None
              => /\ Val(dl.dList) = args
                 /\ \A k \in DOMAIN args : ClassOf[args[k]] # "object"

\* the construction failed on a second argument that is no directive
C9_Witness ==
    /\ pc = "failed"
    /\ err = "AssertionError"
    /\ args = <<"beta", "other">>
    /\ dl.dList = None

\* a step that is one whole call of DirectiveList.call
CallStep == event' # "none" /\ pc' # pc

\* C10: a call with another event name fails with an error, invokes no hook
\* and leaves the shared state as it was; a call with one of the three
\* names fails only inside a hook it has invoked.
C10_InvalidEvent ==
    [][ CallStep =>
          IF IsLifecycleEvent(event')
          THEN /\ err' # "AssertionError"
               /\ err' # "none" => calls' # <<>>
          ELSE /\ err' = "AssertionError"
               /\ calls' = <<>>
               /\ out' = <<>>
               /\ <<opt', invProb', survey', reg', irls', tm', bs'>>
                     = <<opt, invProb, survey, reg, irls, tm, bs>> ]_vars

\* a call with the name "start" has failed in a run that had begun, on a
\* list with members
C10_Witness ==
    /\ pc = "aborted"
    /\ err = "AssertionError"
    /\ event = "start"
    /\ opt.iter >= 1
    /\ Len(Val(dl.dList)) >= 2
    /\ calls = <<>>

----------------------------------------------------------------------------
(* Properties of the inversion bindings *)

\* the members of the list
Members == {Val(dl.dList)[k] : k \in DOMAIN Val(dl.dList)}

\* a step that is an assignment to the inversion property of `on`
Assigns(on) == event' = "inversion" /\ asg' # None /\ Val(asg').on = on

\* C11 as claimed: after an assignment of c to DirectiveList.inversion, the
\* context held already included, every member's inversion is c.
C11_EagerFanOut ==
    (asg # None /\ Val(asg).on = "DirectiveList")
        => \A d \in Members : bound[d] = Some(Val(asg).value)

\* C11: an assignment of c to DirectiveList.inversion, c not the context the
\* list holds, leaves the list and every member bound to c; an assignment of
\* the context it holds changes no binding and warns of nothing.
C11_FanOut ==
    [][ Assigns("DirectiveList") =>
          LET c == Val(asg').value
          IN IF dl.inversion = Some(c)
             THEN dl' = dl /\ bound' = bound /\ warned' = <<>>
             ELSE /\ dl'.inversion = Some(c)
                  /\ \A d \in Members : bound'[d] = Some(c)
                  /\ \A d \in Objects \ Members : bound'[d] = bound[d] ]_vars

\* a list of three members, each bound to another inversion before, has been
\* handed inv2: all three are bound to it, the list and each member warned
C11_Witness ==
    /\ asg = Some([on |-> "DirectiveList", value |-> "inv2"])
    /\ event = "inversion"
    /\ Val(dl.dList) = <<"target", "plain", "beta">>
    /\ warned = <<"DirectiveList", "TargetMisfit", "InversionDirective", "BetaSchedule">>
    /\ dl.inversion = Some("inv2")
    /\ \A d \in Members : bound[d] = Some("inv2")

\* the positions of the list whose member holds an inversion when the
\* fan-out reaches it
Rebound(dList) ==
    {k \in DOMAIN dList :
        bound[dList[k]] # None \/ \E j \in 1..(k - 1) : dList[j] = dList[k]}

\* C12: an assignment of a context to a directive's inversion does not fail
\* and leaves the directive bound to that context; it warns iff the
\* directive held an inversion before.  So the fan-out of a list warns once
\* for every member it finds bound.
C12_BindWarns ==
    [][ /\ \A d \in Members :
              Assigns(d) =>
                  /\ err' = "none"
                  /\ bound'[d] = Some(Val(asg').value)
                  /\ \A e \in Objects \ {d} : bound'[e] = bound[e]
                  /\ warned' = IF bound[d] # None THEN <<ClassOf[d]>> ELSE <<>>
        /\ (Assigns("DirectiveList") /\ dl'.inversion # dl.inversion) =>
              /\ err' = "none"
              /\ Len(warned') = Cardinality(Rebound(Val(dl.dList)))
                                   + (IF dl.inversion # None THEN 1 ELSE 0) ]_vars

\* a BetaSchedule bound to inv1 has been bound to inv2, with a warning
C12_Witness ==
    /\ asg = Some([on |-> "beta", value |-> "inv2"])
    /\ event = "inversion"
    /\ dl.inversion = Some("inv1")
    /\ bound["beta"] = Some("inv2")
    /\ warned = <<"BetaSchedule">>
    /\ err = "none"

----------------------------------------------------------------------------
(* Properties of beta and of the ratios of a reweighting cycle *)

Positive(x) == IsFinite(x) /\ x.n > 0

\* C13 as claimed: from a positive finite beta, with positive cooling
\* factors, a positive target and misfits that are never negative, beta is
\* a positive finite number after every endIter().
C13_BetaPositive == Positive(invProb.beta)

\* f_change, every gamma and beta of the state r, i, p are finite
AllFinite(r, i, p) ==
    /\ i.f_change # None => IsFinite(Val(i.f_change))
    /\ \A t \in DOMAIN r.terms : \A j \in DOMAIN r.terms[t].comps :
           IsFinite(r.terms[t].comps[j].gamma)
    /\ IsFinite(p.beta)

\* C14 as claimed: an endIter() that reaches a reweighting cycle with
\* f_old == 0 raises DegenerateObjective, and no endIter() writes an infinite
\* or NaN value into f_change, a gamma or beta.
C14_DegenerateRaised ==
    [][ HandlerStep =>
          /\ ( /\ irls'.mode = Sparse
               /\ (opt.iter - irls'.iterStart) % irls.minGNiter = 0
               /\ irls.IRLSiter # irls.maxIRLSiter
               /\ irls'.IRLSiter = irls.IRLSiter + 1
               /\ FOldAtCycle.n = 0 )
             => err' = "DegenerateObjective"
          /\ AllFinite(reg', irls', invProb') ]_vars

----------------------------------------------------------------------------
(* Properties of Update_lin_PreCond *)

\* the preconditioner Update_lin_PreCond builds from the regularization and
\* the beta of the state r, p
FreshPC(r, p) == [by |-> "Update_lin_PreCond", beta |-> p.beta, combo |-> ~r.isBaseCombo]

\* C15 as claimed: initialize() installs a fresh preconditioner whatever the
\* slot holds; endIter() installs one built from the current beta unless
\* onlyOnStart, and then leaves the slot alone.
C15_Unconditional ==
    [][ /\ (pc = "init" /\ pc' = "hooks")
              => opt'.approxHinv = Some(FreshPC(reg, invProb))
        /\ (pc = "cooled" /\ pc' = "step")
              => opt'.approxHinv = IF lp.onlyOnStart THEN opt.approxHinv
                                   ELSE Some(FreshPC(reg, invProb)) ]_vars

\* C15: initialize() installs a fresh preconditioner into an empty slot and
\* leaves a preconditioner the slot holds untouched; endIter() replaces the
\* preconditioner the slot holds by one built from the current beta unless
\* onlyOnStart, and leaves the slot alone when onlyOnStart or when it is
\* empty.
C15_PreCondSchedule ==
    [][ /\ (pc = "init" /\ pc' = "hooks")
              => opt'.approxHinv = IF opt.approxHinv = None
                                   THEN Some(FreshPC(reg, invProb))
                                   ELSE opt.approxHinv
        /\ (pc = "cooled" /\ pc' = "step")
              => opt'.approxHinv = IF lp.onlyOnStart \/ opt.approxHinv = None
                                   THEN opt.approxHinv
                                   ELSE Some(FreshPC(reg, invProb)) ]_vars

\* after BetaSchedule has cooled beta from 64 to 8 at iteration 3, endIter()
\* has installed the preconditioner of beta = 8
C15_Witness ==
    /\ pc = "step"
    /\ opt.iter = 3
    /\ ~lp.onlyOnStart
    /\ bs = NewBetaSchedule(Rat(8, 1), 3)
    /\ invProb.beta = Rat(8, 1)
    /\ opt.approxHinv = Some(FreshPC(reg, invProb))

----------------------------------------------------------------------------
(* Properties of the phases of Update_IRLS *)

\* a step that is the endIter() making the switch, returned
SwitchStep == HandlerStep /\ irls.mode = Smooth /\ irls'.mode = Sparse /\ err' = "none"

\* C16 as claimed: when the endIter() that makes the switch has returned,
\* every term has both thresholds, the supplied ones as supplied.
C16_ThresholdsEstimated ==
    [][ SwitchStep =>
          \A i \in DOMAIN reg.terms :
              /\ reg'.terms[i].eps_p # None
              /\ reg'.terms[i].eps_q # None
              /\ reg.terms[i].eps_p # None => reg'.terms[i].eps_p = reg.terms[i].eps_p
              /\ reg.terms[i].eps_q # None => reg'.terms[i].eps_q = reg.terms[i].eps_q ]_vars

\* q = b * target / x with target = 0.5 * nD, on integers; with x zero or b
\* not finite the quotient is no finite number
IsRescaled(q, b, x) ==
    IF b.d > 0 /\ x.n # 0
    THEN q.d > 0 /\ q.n * b.d * 2 * x.n = b.n * survey.nD * x.d * q.d
    ELSE q.d = 0

\* C17: an endIter() that stays in Smooth mode divides beta by the
\* controller's coolingFactor when iter > 0 and iter mod coolingRate == 0
\* and leaves it alone otherwise; the endIter() that makes the switch and
\* every later one leave coolingFactor and coolingRate at 1, and change beta,
\* if at all, to beta * target / phi_d.
C17_CoolingByPhase ==
    [][ HandlerStep =>
          /\ irls'.mode = Smooth =>
                /\ IF opt.iter > 0 /\ opt.iter % irls.coolingRate = 0
                   THEN IsQuotient(invProb'.beta, invProb.beta, irls.coolingFactor)
                   ELSE invProb'.beta = invProb.beta
                /\ irls'.coolingFactor = irls.coolingFactor
                /\ irls'.coolingRate = irls.coolingRate
          /\ (irls'.mode = Sparse /\ err' = "none") =>
                /\ irls'.coolingFactor = Rat(1, 1)
                /\ irls'.coolingRate = 1
                /\ invProb'.beta # invProb.beta =>
                       IsRescaled(invProb'.beta, invProb.beta, invProb.phi_d)
          /\ err' # "none" => invProb'.beta = invProb.beta ]_vars

\* cooled once in the smooth phase, at iteration 1, beta has stayed at 32
\* through the switch at iteration 2 and two more iterations
C17_Witness ==
    /\ pc = "step"
    /\ irls.mode = Sparse
    /\ irls.iterStart = 2
    /\ opt.iter = 4
    /\ irls.IRLSiter >= 2
    /\ invProb.beta = Rat(32, 1)

\* C18: an endIter() increments IRLSiter, by 1, iff it is in Sparse mode at
\* the reweighting test, (iter - iterStart) mod minGNiter == 0 and
\* IRLSiter < maxIRLSiter, iterStart being the iteration of the switch; no
\* other step changes IRLSiter, which is 0 throughout the Smooth mode.
C18_Cadence ==
    [][ /\ HandlerStep =>
              LET cycle == /\ err' = "none"
                           /\ irls'.mode = Sparse
                           /\ (opt.iter - irls'.iterStart) % irls.minGNiter = 0
                           /\ irls.IRLSiter < irls.maxIRLSiter
              IN irls'.IRLSiter = IF cycle THEN irls.IRLSiter + 1 ELSE irls.IRLSiter
        /\ ~HandlerStep => irls'.IRLSiter = irls.IRLSiter
        /\ (irls.mode = Smooth /\ irls'.mode = Sparse /\ err' = "none")
              => irls'.iterStart = opt.iter
        /\ irls.mode = Sparse => irls'.iterStart = irls.iterStart
        /\ irls'.mode = Smooth => irls'.IRLSiter = 0 ]_vars

\* with minGNiter = 2 and the switch at iteration 1, the cycles ran at
\* iterations 1 and 3 and none at 2 and 4
C18_Witness ==
    /\ pc = "step"
    /\ irls.minGNiter = 2
    /\ irls.iterStart = 1
    /\ opt.iter = 4
    /\ irls.IRLSiter = 2
    /\ ~opt.stopNextIteration

\* |1 - x / target| > beta_tol with target = 0.5 * nD, on integers
OutOfBand(x) == 100 * AbsInt(survey.nD * x.d - 2 * x.n) > 5 * survey.nD * x.d

\* the decrease test has stopped the cycle of this step
DecreaseStop == \E k \in DOMAIN out' : out'[k] = "Minimum decrease in regularization"

\* C19: a reweighting cycle that neither the cap nor the decrease test
\* stops replaces beta by beta * target / phi_d iff phi_d is off the target
\* by more than beta_tol in relative terms and the incremented IRLSiter is
\* above 1; otherwise it leaves beta as it was.
C19_BandRescale ==
    [][ (CycleStep /\ ~DecreaseStop) =>
          IF OutOfBand(invProb.phi_d) /\ irls'.IRLSiter > 1
          THEN /\ IsRescaled(invProb'.beta, invProb.beta, invProb.phi_d)
               /\ IsFinite(invProb.beta) => invProb'.beta # invProb.beta
          ELSE invProb'.beta = invProb.beta ]_vars

\* the second cycle, at a misfit of 12 against the target 10, has taken beta
\* from 64 to 64 * 10 / 12
C19_Witness ==
    /\ pc = "step"
    /\ irls.IRLSiter = 2
    /\ invProb.phi_d = Rat(12, 1)
    /\ invProb.beta = Rat(160, 3)
    /\ ~opt.stopNextIteration

\* every component of every term of r has the gamma g and the cache state c
AllComps(r, g, c) ==
    \A i \in DOMAIN r.terms : \A j \in DOMAIN r.terms[i].comps :
        r.terms[i].comps[j] = [stashedR |-> c, gamma |-> g]

\* C20: in a reweighting cycle the cap does not stop, the evaluation of
\* phim_new finds every term's cache invalidated and its gamma at 1; a cycle
\* the decrease test does not stop either ends with every gamma at
\* phi_m_last / phim_new and every cache invalidated again; one it does
\* stop ends with every gamma at 1.
C20_GammaRescale ==
    [][ CycleStep =>
          /\ inp'.seen # None
          /\ \A i \in DOMAIN reg.terms : \A j \in DOMAIN reg.terms[i].comps :
                 Val(inp'.seen)[i][j] = [stashedR |-> FALSE, gamma |-> Rat(1, 1)]
          /\ ~DecreaseStop =>
                \A i \in DOMAIN reg'.terms : \A j \in DOMAIN reg'.terms[i].comps :
                    LET c == reg'.terms[i].comps[j]
                    IN /\ ~c.stashedR
                       /\ IF inp'.phim_new.n # 0
                          THEN IsQuotient(c.gamma, invProb.phi_m_last, inp'.phim_new)
                          ELSE c.gamma.d = 0
          /\ DecreaseStop =>
                \A i \in DOMAIN reg'.terms : \A j \in DOMAIN reg'.terms[i].comps :
                    reg'.terms[i].comps[j].gamma = Rat(1, 1) ]_vars

\* the second cycle of a two-term regularization has left every gamma at
\* 50 / 101, all caches invalid
C20_Witness ==
    /\ pc = "step"
    /\ ~reg.isBaseCombo
    /\ irls.IRLSiter = 2
    /\ invProb.phi_m_last = Rat(50, 1)
    /\ AllComps(reg, Rat(50, 101), FALSE)

----------------------------------------------------------------------------
(* Properties of the length of the sparse phase *)

\* the iteration whose endIter() meets the cap at the latest
LastCycleIter == irls.iterStart + irls.maxIRLSiter * irls.minGNiter

\* C21: with endIter() called once per iteration and no call failing, once
\* the switch has been made at iterStart the stop flag is set when the
\* endIter() of iteration iterStart + maxIRLSiter * minGNiter has returned,
\* and from then on.
C21_BoundedSparsePhase ==
    ( /\ irls.mode = Sparse
      /\ err = "none"
      /\ \/ opt.iter > LastCycleIter
         \/ (opt.iter = LastCycleIter /\ pc = "step") )
    => opt.stopNextIteration

\* the flag was set by the cap at the last iteration the bound allows: with
\* maxIRLSiter = 2 and minGNiter = 2 the cycles run at iterStart and
\* iterStart + 2, and the call at iterStart + 4 meets the cap
C21_Witness ==
    /\ pc = "step"
    /\ irls.mode = Sparse
    /\ irls.maxIRLSiter = 2
    /\ irls.minGNiter = 2
    /\ opt.iter = LastCycleIter
    /\ Printed("Reach maximum number of IRLS cycles")
    /\ opt.stopNextIteration

\* C22: the endIter() that makes the switch runs the first reweighting cycle
\* itself when maxIRLSiter >= 1; so after every endIter() that returns, with
\* maxIRLSiter >= 1, Sparse mode has 1 <= IRLSiter <= maxIRLSiter and Smooth
\* mode has IRLSiter == 0.
C22_HookBoundary ==
    [][ (HandlerStep /\ err' = "none" /\ irls.maxIRLSiter >= 1) =>
          /\ (irls.mode = Smooth /\ irls'.mode = Sparse) =>
                /\ irls'.iterStart = opt.iter
                /\ irls'.IRLSiter = 1
                /\ inp'.seen # None
          /\ irls'.mode = Sparse =>
                (1 <= irls'.IRLSiter /\ irls'.IRLSiter <= irls'.maxIRLSiter)
          /\ irls'.mode = Smooth => irls'.IRLSiter = 0 ]_vars

\* the switch was made at iteration 1 with minGNiter = 2, and the first
\* cycle has run in that call
C22_Witness ==
    /\ pc = "step"
    /\ irls.mode = Sparse
    /\ irls.minGNiter = 2
    /\ irls.iterStart = 1
    /\ opt.iter = 1
    /\ irls.IRLSiter = 1
    /\ inp.seen # None

====
